---- MODULE Spec2Model ----
(***************************************************************************)
(* The polling daemon of src/app.py (main and the functions it calls):     *)
(* the credential held in main's locals, the credential file               *)
(* refresh_token.json, the wall clock, and the position of the single      *)
(* thread of control in main's two loops and their exception handlers.     *)
(*                                                                         *)
(* Time is in seconds.  Tokens are positive integers (0 is "no value"):    *)
(* the credential loaded at startup carries token 1, and the k-th          *)
(* successful exchange returns access token and refresh token k + 1.       *)
(* A remote call, a device call and a file operation each end in one of    *)
(* the ways the Python code distinguishes: a normal return, an exception   *)
(* one of main's handlers catches, or an exception none of them catches.   *)
(***************************************************************************)
EXTENDS Integers, Sequences, FiniteSets, TLC

VARIABLES
    pc,                 \* position of main's thread of control
    now,                \* datetime.now(), seconds since midnight of the start day
    start_time,         \* main's start_time (app.py:202)
    startDay,           \* ISO weekday of the day the process started on
    access_token,       \* main's local access_token
    access_expiry,      \* main's local access_expiry (minute precision)
    refresh_token,      \* main's local refresh_token
    new_refresh_token,  \* main's local new_refresh_token (0 while unbound)
    user_id,            \* main's local user_id (0 while unbound)
    organization_id,    \* main's local organization_id (0 while unbound)
    file,               \* fields of refresh_token.json that are on disk
    issued,             \* number of exchanges the token endpoint has granted
    faults,             \* number of caught failures injected so far
    sigint,             \* a KeyboardInterrupt has been raised
    reboots,            \* number of times os.system("reboot") was issued
    tornDown,           \* epdconfig.module_exit() has been called
    hist,               \* history: requests sent and credentials issued
    iter,               \* history of the current loop iteration
    call                \* a call of one of the pure functions, on its own

\* the state of main
daemon == <<pc, now, start_time, startDay, access_token, access_expiry,
            refresh_token, new_refresh_token, user_id, organization_id, file,
            issued, faults, sigint, reboots, tornDown, hist, iter>>

vars == <<daemon, call>>

----------------------------------------------------------------------------
(* Bounds of the model *)

\* successful exchanges granted in one run
MaxExchanges == 2
\* caught failures (RequestException, IOError) injected in one run
MaxFaults == 1
\* the loop is not followed beyond this uptime, in seconds
MaxUptime == 3720
\* organizations in one response
MaxOrgs == 3

(* Program constants *)

\* timedelta(minutes=5), in seconds
RefreshLead == 300
\* 60 * 60
WatchdogLimit == 3600
WorkdayWaitSecs == 55
WeekendWaitSecs == 600
RequestRetrySecs == 30
IORetrySecs == 5
InitRetrySecs == 3
TeardownSecs == 2
SecsPerMinute == 60
SecsPerDay == 86400

(* Inputs *)

\* wall-clock time of day at which the process starts: 23:30, so that a run
\* of an hour crosses midnight and sees two weekdays
StartClocks == {84600}
\* ISO weekday of the start: Thursday to Sunday, so that the day that
\* begins at midnight is a Friday, a Saturday, a Sunday or a Monday
StartDays == {4, 5, 6, 7}
\* expiry of the loaded credential, relative to the start: 4 and 10 minutes
LoadedExpiryOffsets == {240, 600}
\* expires_in values the token endpoint returns
ExpiresInValues == {240, 7200}

----------------------------------------------------------------------------
(* Pure parts of the code *)

\* strftime("%Y-%m-%d %I:%M%p") drops the seconds; strptime reads it back
Trunc60(t) == (t \div SecsPerMinute) * SecsPerMinute

\* access_expiry as computed by the exchange
ExpiryAfter(t, expires_in) == Trunc60(t + expires_in)

\* the refresh condition without the five-minute lead
NeedsRefreshNoLead(t, expiry) == t > expiry

\* the refresh condition of the workday branch
NeedsRefresh(t, expiry) == t + RefreshLead > expiry

\* the uptime condition with the limit taken as 60 seconds
WatchdogExceededSeconds(t, st) == t - st > SecsPerMinute

\* the uptime condition at the top of the loop
WatchdogExceeded(t, st) == t - st > WatchdogLimit

\* datetime.today().isoweekday()
IsoWeekday(d0, t) == ((d0 - 1 + (t \div SecsPerDay)) % 7) + 1

\* the if / elif / else on day_of_week
DayBranchOf(day_of_week) ==
    IF day_of_week = 8 THEN "Weekend"
    ELSE IF day_of_week = 6 THEN "Saturday"
    ELSE "Workday"

\* a record that carries the refresh token the exchange consumed
TokenRecordOldRefresh(at, expiry, rt) == <<at, expiry, refresh_token>>

\* the record json.dump writes
TokenRecord(at, expiry, rt) == <<at, expiry, rt>>

\* the refresh token the exchange request carries
ExchangeRequestToken == refresh_token

\* the names of the organizations a response lists
OrgNames == {"NXLog Ltd", "nxlog", "Acme"}

\* "NXLog" in org["name"]: a case-sensitive substring test
ContainsNXLog(name) == name \in {"NXLog Ltd"}

\* organization_id when the loop assigned nothing to it
Unbound == 0

\* the result of a call: the value returned, or the exception raised
Returned(v) == [raised |-> "none", value |-> v]

Raised(exception) == [raised |-> exception, value |-> 0]

\* the loop taking every organization listed, matching or not
get_organization_id_unfiltered(organizations) ==
    LET assigned == 1..Len(organizations)
        org_id ==
            IF assigned = {} THEN Unbound
            ELSE organizations[CHOOSE i \in assigned :
                                  \A j \in assigned : j <= i].id
    IN  IF org_id = Unbound THEN Raised("UnboundLocalError")
        ELSE Returned(org_id)

\* get_organization_id, the loop over the response and the return: the
\* last assignment of the loop is the one that is returned, and the return
\* of a name never assigned raises UnboundLocalError
get_organization_id(organizations) ==
    LET assigned == {i \in 1..Len(organizations) :
                        ContainsNXLog(organizations[i].name)}
        org_id ==
            IF assigned = {} THEN Unbound
            ELSE organizations[CHOOSE i \in assigned :
                                  \A j \in assigned : j <= i].id
    IN  IF org_id = Unbound THEN Raised("UnboundLocalError")
        ELSE Returned(org_id)

\* get_time_remaining.  The hours are a float read from settings.conf,
\* given here in ten-thousandths of an hour; the result is in
\* twenty-fifths of a second, so that hours4 * 60 * 60 / 10000 is exact
get_time_remaining(hours4, billable_activity_in_seconds) ==
    LET desired_worked_seconds_per_day == hours4 * 9
        work_time_remaining ==
            desired_worked_seconds_per_day - billable_activity_in_seconds * 25
    IN  IF work_time_remaining < 0 THEN 0 ELSE work_time_remaining

----------------------------------------------------------------------------
(* The credential file at startup *)

\* an access_expiry string that strptime("%Y-%m-%d %I:%M%p") rejects
Unparsable == -1
\* refresh_token.json as found at startup: a complete record with either
\* expiry or with an expiry that does not parse, a record without its
\* refresh_token field, and a file that is absent or empty
StartFiles(t) ==
    {<<1, Trunc60(t) + d, 1>> : d \in LoadedExpiryOffsets}
        \cup {<<1, Unparsable, 1>>, <<1, Trunc60(t) + 600>>, <<>>}

----------------------------------------------------------------------------
(* History *)

\* what the current loop iteration has done so far
NoIter == [ops |-> 0, opsBefore |-> 0, checked |-> FALSE, reboot |-> FALSE,
           uptime |-> 0, dow |-> 0, branch |-> "none",
           chk |-> FALSE, chkNow |-> 0, chkExp |-> 0,
           refresh |-> FALSE, apiBefore |-> 0, exchanged |-> FALSE,
           saved |-> FALSE, api |-> 0, rejected |-> FALSE]

Terminal == {"exited", "crashed", "killed"}

\* no pure function is being called
NoCall == [fn |-> "none", organizations |-> <<>>, hours4 |-> 0, worked |-> 0,
           done |-> FALSE, result |-> Returned(0)]

\* the outcomes of a remote call: normal return, RequestException, or a
\* response without the expected field (an HTTP error response or any other
\* body that lacks it: KeyError)
NetOutcomes ==
    {"ok", "badresp"} \cup (IF faults < MaxFaults THEN {"neterr"} ELSE {})

\* the outcomes of an API call: those of a remote call, and a 401 response,
\* whose error body lacks the expected field as well
ApiOutcomes == NetOutcomes \cup {"unauthorized"}

\* the positions at which a remote call is made: requests.get and
\* requests.post, none of them given a timeout
RemoteCalls == {"discover", "exchange", "get_user", "get_org", "get_activity"}

\* the outcomes of a device or file call: normal return or IOError
IOOutcomes == {"ok"} \cup (IF faults < MaxFaults THEN {"ioerr"} ELSE {})

----------------------------------------------------------------------------
Init ==
    /\ pc = "load"
    /\ now \in StartClocks
    /\ start_time = now
    /\ startDay \in StartDays
    /\ access_token = 0
    /\ access_expiry = 0
    /\ refresh_token = 0
    /\ new_refresh_token = 0
    /\ user_id = 0
    /\ organization_id = 0
    /\ file \in StartFiles(now)
    /\ issued = 0
    /\ faults = 0
    /\ sigint = FALSE
    /\ reboots = 0
    /\ tornDown = FALSE
    /\ hist = [exchangeReqs |-> 0, sentRefresh |-> 0, validRefresh |-> 0,
               lastAccess |-> 0, lastExpiry |-> 0,
               lastRefresh |-> 0, prevRefresh |-> 0,
               reqToken |-> 0, save |-> "none", prevFile |-> file,
               crash |-> "none", dev |-> <<>>, unauthorized |-> FALSE,
               startFile |-> file, polled |-> FALSE, rendered |-> FALSE]
    /\ iter = NoIter
    /\ call = NoCall

----------------------------------------------------------------------------
(* Control flow helpers *)

\* the end of a loop iteration: the wait, then back to the top of the loop
EndIteration(delay) ==
    /\ now' = now + delay
    /\ pc' = "watchdog"
    /\ iter' = NoIter

\* a remote call caught as RequestException, a device or file call caught
\* as IOError
Caught(handler) ==
    /\ pc' = handler
    /\ faults' = faults + 1

\* an exception no handler catches: the process ends with a traceback
Uncaught(h, exception) == [h EXCEPT !.crash = exception]

Cred == <<access_token, access_expiry, refresh_token, new_refresh_token>>

Ids == <<user_id, organization_id>>

----------------------------------------------------------------------------
(* The load of the credential: app.py:201-202, 33-47 *)

\* load_tokens_from_file: open and json.load raise on an absent or empty
\* file, the subscripts raise KeyError on a missing field; the expiry is
\* returned as the string it is
LoadTokens ==
    /\ pc = "load"
    /\ IF Len(file) < 3
       THEN /\ pc' = "crashed"
            /\ hist' = Uncaught(hist, IF file = <<>> THEN "FileNotFoundError"
                                      ELSE "KeyError")
            /\ UNCHANGED Cred
       ELSE /\ access_token' = file[1]
            /\ access_expiry' = file[2]
            /\ refresh_token' = file[3]
            /\ new_refresh_token' = new_refresh_token
            /\ hist' = [hist EXCEPT !.lastAccess = file[1],
                                    !.lastExpiry = file[2],
                                    !.lastRefresh = file[3],
                                    !.validRefresh = file[3]]
            /\ pc' = "init_epd"
    /\ UNCHANGED <<call, now, start_time, startDay, file, issued, faults, sigint,
                   reboots, tornDown, iter,
                   Ids>>

----------------------------------------------------------------------------
(* The startup loop: app.py:204-216 *)

InitDisplay ==
    /\ pc = "init_epd"
    /\ \E o \in IOOutcomes :
          IF o = "ok"
          THEN pc' = "watchdog" /\ faults' = faults
          ELSE Caught("init_sleep")
    /\ UNCHANGED <<call, now, start_time, startDay, Cred, file, issued, sigint,
                   reboots, tornDown, hist, iter,
                   Ids>>

InitRetryWait ==
    /\ pc = "init_sleep"
    /\ now' = now + InitRetrySecs
    /\ pc' = "init_epd"
    /\ UNCHANGED <<call, start_time, startDay, Cred, file, issued, faults, sigint,
                   reboots, tornDown, hist, iter,
                   Ids>>

----------------------------------------------------------------------------
(* The top of the polling loop: app.py:228-233 *)

\* a check that starts a new hour of uptime when it issues the restart
WatchdogResetting ==
    /\ pc = "watchdog"
    /\ now - start_time <= MaxUptime \/ reboots = 0
    /\ LET exceeded == WatchdogExceeded(now, start_time) IN
         /\ reboots' = IF exceeded THEN reboots + 1 ELSE reboots
         /\ start_time' = IF exceeded THEN now ELSE start_time
         /\ iter' = [iter EXCEPT !.checked = TRUE, !.reboot = exceeded,
                                 !.uptime = now - start_time,
                                 !.opsBefore = iter.ops]
    /\ hist' = [hist EXCEPT !.polled = TRUE]
    /\ pc' = "weekday"
    /\ UNCHANGED <<call, now, startDay, Cred, file, issued, faults,
                   sigint, tornDown, Ids>>

\* if (dt.now() - start_time).total_seconds() > 60 * 60:
\*     os.system("reboot")
Watchdog ==
    /\ pc = "watchdog"
    /\ now - start_time <= MaxUptime \/ reboots = 0
    /\ LET exceeded == WatchdogExceeded(now, start_time) IN
         /\ reboots' = IF exceeded THEN reboots + 1 ELSE reboots
         /\ iter' = [iter EXCEPT !.checked = TRUE, !.reboot = exceeded,
                                 !.uptime = now - start_time,
                                 !.opsBefore = iter.ops]
    /\ hist' = [hist EXCEPT !.polled = TRUE]
    /\ pc' = "weekday"
    /\ UNCHANGED <<call, now, start_time, startDay, Cred, file, issued, faults,
                   sigint, tornDown,
                   Ids>>

DayBranch ==
    /\ pc = "weekday"
    /\ LET day_of_week == IsoWeekday(startDay, now)
           branch == DayBranchOf(day_of_week) IN
         /\ iter' = [iter EXCEPT !.dow = day_of_week, !.branch = branch]
         /\ pc' = CASE branch = "Weekend" -> "sunday"
                   [] branch = "Saturday" -> "saturday"
                   [] OTHER -> "check_expiry"
    /\ UNCHANGED <<call, now, start_time, startDay, Cred, file, issued, faults,
                   sigint, reboots, tornDown, hist,
                   Ids>>

----------------------------------------------------------------------------
(* The Sunday and Saturday branches: app.py:234-243, 255-263 *)

WeekendRender ==
    /\ pc \in {"sunday", "saturday"}
    /\ iter' = [iter EXCEPT !.ops = @ + 1]
    /\ \E o \in IOOutcomes :
          IF o = "ok"
          THEN /\ pc' = "weekend_wait"
               /\ faults' = faults
               /\ hist' = [hist EXCEPT !.rendered = TRUE]
          ELSE Caught("except_io") /\ hist' = hist
    /\ UNCHANGED <<call, now, start_time, startDay, Cred, file, issued, sigint,
                   reboots, tornDown,
                   Ids>>

WeekendWait ==
    /\ pc = "weekend_wait"
    /\ EndIteration(WeekendWaitSecs)
    /\ UNCHANGED <<call, start_time, startDay, Cred, file, issued, faults, sigint,
                   reboots, tornDown, hist,
                   Ids>>

----------------------------------------------------------------------------
(* The workday branch, token refresh: app.py:276-290 *)

CheckExpiry ==
    /\ pc = "check_expiry"
    /\ IF access_expiry = Unparsable
       THEN /\ pc' = "crashed"
            /\ hist' = Uncaught(hist, "ValueError")
            /\ iter' = iter
       ELSE /\ iter' = [iter EXCEPT !.chk = TRUE, !.chkNow = now,
                                    !.chkExp = access_expiry]
            /\ pc' = IF NeedsRefresh(now, access_expiry) THEN "discover"
                     ELSE "get_user"
            /\ hist' = hist
    /\ UNCHANGED <<call, now, start_time, startDay, Cred, file, issued, faults,
                   sigint, reboots, tornDown,
                   Ids>>

\* get_token_endpoint: app.py:50-65
Discover ==
    /\ pc = "discover"
    /\ iter' = [iter EXCEPT !.refresh = TRUE, !.apiBefore = iter.api,
                            !.ops = @ + 1]
    /\ \E o \in NetOutcomes :
          CASE o = "ok" -> pc' = "exchange" /\ UNCHANGED <<faults, hist>>
            [] o = "neterr" -> Caught("except_request") /\ hist' = hist
            [] o = "badresp" ->
                 /\ pc' = "crashed"
                 /\ hist' = Uncaught(hist, "KeyError")
                 /\ faults' = faults
    /\ UNCHANGED <<call, now, start_time, startDay, Cred, file, issued, sigint,
                   reboots, tornDown,
                   Ids>>

\* get_access_token_access_expiry_and_new_refresh_token: app.py:68-90,
\* and the assignment of its result at app.py:285
Exchange ==
    /\ pc = "exchange"
    /\ \E o \in NetOutcomes, expires_in \in ExpiresInValues :
          LET sent == [hist EXCEPT !.exchangeReqs = @ + 1,
                                   !.sentRefresh = ExchangeRequestToken,
                                   !.validRefresh = hist.lastRefresh]
              tok == issued + 2
          IN
          CASE o = "ok" ->
                 /\ issued < MaxExchanges
                 /\ issued' = issued + 1
                 /\ access_token' = tok
                 /\ access_expiry' = ExpiryAfter(now, expires_in)
                 /\ new_refresh_token' = tok
                 /\ refresh_token' = refresh_token
                 /\ hist' = [sent EXCEPT !.lastAccess = tok,
                                         !.lastExpiry = ExpiryAfter(now, expires_in),
                                         !.prevRefresh = hist.lastRefresh,
                                         !.lastRefresh = tok,
                                         !.save = "pending"]
                 /\ iter' = [iter EXCEPT !.exchanged = TRUE, !.ops = @ + 1]
                 /\ pc' = "save_open"
                 /\ faults' = faults
            [] o = "neterr" ->
                 /\ Caught("except_request")
                 /\ hist' = sent
                 /\ iter' = [iter EXCEPT !.ops = @ + 1]
                 /\ UNCHANGED <<Cred, issued>>
            [] o = "badresp" ->
                 /\ pc' = "crashed"
                 /\ hist' = Uncaught(sent, "KeyError")
                 /\ iter' = [iter EXCEPT !.ops = @ + 1]
                 /\ UNCHANGED <<Cred, issued, faults>>
    /\ UNCHANGED <<call, now, start_time, startDay, file, sigint, reboots, tornDown,
                   Ids>>

\* an open whose failure is swallowed: the iteration goes on to the requests
SaveOpenSwallowed ==
    /\ pc = "save_open"
    /\ \E o \in IOOutcomes :
          IF o = "ok"
          THEN /\ file' = <<>>
               /\ hist' = [hist EXCEPT !.prevFile = file]
               /\ pc' = "save_write"
               /\ faults' = faults
          ELSE /\ file' = file
               /\ hist' = [hist EXCEPT !.prevFile = file, !.save = "failed"]
               /\ Caught("get_user")
    /\ UNCHANGED <<call, now, start_time, startDay, Cred, issued, sigint, reboots,
                   tornDown, iter,
                   Ids>>

\* save_tokens_to_file, open(..., "w"): app.py:95
SaveOpen ==
    /\ pc = "save_open"
    /\ \E o \in IOOutcomes :
          IF o = "ok"
          THEN /\ file' = <<>>
               /\ hist' = [hist EXCEPT !.prevFile = file]
               /\ pc' = "save_write"
               /\ faults' = faults
          ELSE /\ file' = file
               /\ hist' = [hist EXCEPT !.prevFile = file, !.save = "failed"]
               /\ Caught("except_io")
    /\ UNCHANGED <<call, now, start_time, startDay, Cred, issued, sigint, reboots,
                   tornDown, iter,
                   Ids>>

\* a write whose failure drops the tokens just obtained and falls back on
\* the ones held before the exchange
SaveWriteDiscarding ==
    /\ pc = "save_write"
    /\ LET rec == TokenRecord(access_token, access_expiry, new_refresh_token) IN
       \E o \in IOOutcomes :
          IF o = "ok"
          THEN /\ file' = rec
               /\ hist' = [hist EXCEPT !.save = "ok"]
               /\ iter' = [iter EXCEPT !.saved = TRUE]
               /\ pc' = "get_user"
               /\ faults' = faults
               /\ UNCHANGED Cred
          ELSE /\ \E n \in 0..(Len(rec) - 1) : file' = SubSeq(rec, 1, n)
               /\ hist' = [hist EXCEPT !.save = "failed"]
               /\ iter' = iter
               /\ Caught("except_io")
               /\ access_token' = hist.prevFile[1]
               /\ access_expiry' = hist.prevFile[2]
               /\ UNCHANGED <<refresh_token, new_refresh_token>>
    /\ UNCHANGED <<call, now, start_time, startDay, issued, sigint, reboots,
                   tornDown,
                   Ids>>

\* save_tokens_to_file, json.dump and the close of the file: app.py:96-103
SaveWrite ==
    /\ pc = "save_write"
    /\ LET rec == TokenRecord(access_token, access_expiry, new_refresh_token) IN
       \E o \in IOOutcomes :
          IF o = "ok"
          THEN /\ file' = rec
               /\ hist' = [hist EXCEPT !.save = "ok"]
               /\ iter' = [iter EXCEPT !.saved = TRUE]
               /\ pc' = "get_user"
               /\ faults' = faults
          ELSE /\ \E n \in 0..(Len(rec) - 1) : file' = SubSeq(rec, 1, n)
               /\ hist' = [hist EXCEPT !.save = "failed"]
               /\ iter' = iter
               /\ Caught("except_io")
    /\ UNCHANGED <<call, now, start_time, startDay, Cred, issued, sigint, reboots,
                   tornDown,
                   Ids>>

----------------------------------------------------------------------------
(* The workday branch, activity requests and rendering: app.py:292-331 *)

\* a GET with the bearer token, and the lookup in its JSON response
ApiCall(here, next) ==
    /\ pc = here
    /\ LET sent == [hist EXCEPT !.reqToken = access_token]
           made == [iter EXCEPT !.api = @ + 1, !.ops = @ + 1]
       IN
       \E o \in ApiOutcomes :
          CASE o = "ok" ->
                 /\ pc' = next
                 /\ hist' = sent
                 /\ iter' = made
                 /\ faults' = faults
            [] o = "neterr" ->
                 /\ Caught("except_request")
                 /\ hist' = sent
                 /\ iter' = made
            [] o = "badresp" ->
                 /\ pc' = "crashed"
                 /\ hist' = Uncaught(sent, "KeyError")
                 /\ iter' = made
                 /\ faults' = faults
            [] o = "unauthorized" ->
                 /\ pc' = "crashed"
                 /\ hist' = Uncaught([sent EXCEPT !.unauthorized = TRUE],
                                     "KeyError")
                 /\ iter' = [made EXCEPT !.rejected = TRUE]
                 /\ faults' = faults
    /\ UNCHANGED <<call, now, start_time, startDay, Cred, file, issued, sigint,
                   reboots, tornDown>>

\* user_id = get_user_id(...): app.py:292, 106-112
GetUserId ==
    /\ ApiCall("get_user", "get_org")
    /\ user_id' = IF pc' = "get_org" THEN 1 ELSE user_id
    /\ organization_id' = organization_id

\* organization_id = get_organization_id(...): app.py:293-295, 115-126
GetOrganizationId ==
    /\ ApiCall("get_org", "get_activity")
    /\ organization_id' = IF pc' = "get_activity" THEN 1 ELSE organization_id
    /\ user_id' = user_id

\* worked_seconds = get_billable_activity(...): app.py:296-298, 129-159
GetBillableActivity ==
    /\ ApiCall("get_activity", "render")
    /\ UNCHANGED Ids

WorkdayRender ==
    /\ pc = "render"
    /\ iter' = [iter EXCEPT !.ops = @ + 1]
    /\ \E o \in IOOutcomes :
          IF o = "ok"
          THEN /\ pc' = "wait"
               /\ faults' = faults
               /\ hist' = [hist EXCEPT !.rendered = TRUE]
          ELSE Caught("except_io") /\ hist' = hist
    /\ UNCHANGED <<call, now, start_time, startDay, Cred, file, issued, sigint,
                   reboots, tornDown,
                   Ids>>

WorkdayWait ==
    /\ pc = "wait"
    /\ EndIteration(WorkdayWaitSecs)
    /\ UNCHANGED <<call, start_time, startDay, Cred, file, issued, faults, sigint,
                   reboots, tornDown, hist,
                   Ids>>

\* a request without a timeout to a server that accepts the connection and
\* sends no response: the call does not return (one of the failures
\* injected in a run)
CallBlocks ==
    /\ pc \in RemoteCalls
    /\ faults < MaxFaults
    /\ faults' = faults + 1
    /\ pc' = "blocked"
    /\ iter' = NoIter
    /\ UNCHANGED <<call, now, start_time, startDay, Cred, file, issued, sigint,
                   reboots, tornDown, hist, Ids>>

\* an hour later the call has still not returned
BlockedCall ==
    /\ pc = "blocked"
    /\ now - start_time <= WatchdogLimit
    /\ now' = now + WatchdogLimit
    /\ UNCHANGED <<call, pc, start_time, startDay, Cred, file, issued, faults,
                   sigint, reboots, tornDown, hist, iter, Ids>>

----------------------------------------------------------------------------
(* The exception handlers: app.py:333-349, 241-252, 261-272, 218-226 *)

ExceptRequest ==
    /\ pc = "except_request"
    /\ EndIteration(RequestRetrySecs)
    /\ UNCHANGED <<call, start_time, startDay, Cred, file, issued, faults, sigint,
                   reboots, tornDown, hist,
                   Ids>>

\* an IOError handler that goes back to the top of the loop at once
ExceptIOImmediate ==
    /\ pc = "except_io"
    /\ EndIteration(0)
    /\ UNCHANGED <<call, start_time, startDay, Cred, file, issued, faults, sigint,
                   reboots, tornDown, hist,
                   Ids>>

ExceptIO ==
    /\ pc = "except_io"
    /\ EndIteration(IORetrySecs)
    /\ UNCHANGED <<call, start_time, startDay, Cred, file, issued, faults, sigint,
                   reboots, tornDown, hist,
                   Ids>>

\* the positions inside a try block that has an except KeyboardInterrupt
InterruptCaught ==
    {"init_epd", "sunday", "saturday", "weekend_wait", "check_expiry",
     "discover", "exchange", "save_open", "save_write", "get_user",
     "get_org", "get_activity", "render", "wait", "blocked"}

\* a KeyboardInterrupt is raised at the current position: caught inside the
\* try blocks, not caught at the top of the loop, inside a handler or
\* during the teardown
Interrupt ==
    /\ pc \notin Terminal
    /\ sigint' = TRUE
    /\ pc' = IF pc \in InterruptCaught THEN "td_clear" ELSE "crashed"
    /\ hist' = IF pc \in InterruptCaught THEN hist
               ELSE Uncaught(hist, "KeyboardInterrupt")
    /\ iter' = NoIter
    /\ UNCHANGED <<call, now, start_time, startDay, Cred, file, issued, faults,
                   reboots, tornDown,
                   Ids>>

\* EPD(), init, Clear of the KeyboardInterrupt handler
TeardownClear ==
    /\ pc = "td_clear"
    /\ \E o \in {"ok", "ioerr"} :
          IF o = "ok"
          THEN /\ pc' = "td_sleep"
               /\ hist' = [hist EXCEPT !.dev = @ \o <<"init", "clear">>]
          ELSE /\ pc' = "crashed"
               /\ hist' = Uncaught(hist, "IOError")
    /\ UNCHANGED <<call, now, start_time, startDay, Cred, file, issued, faults,
                   sigint, reboots, tornDown, iter,
                   Ids>>

\* time.sleep(2) of the KeyboardInterrupt handler
TeardownWait ==
    /\ pc = "td_sleep"
    /\ now' = now + TeardownSecs
    /\ pc' = "td_exit"
    /\ UNCHANGED <<call, start_time, startDay, Cred, file, issued, faults, sigint,
                   reboots, tornDown, hist, iter,
                   Ids>>

\* module_exit() and exit() of the KeyboardInterrupt handler
TeardownExit ==
    /\ pc = "td_exit"
    /\ \E o \in {"ok", "ioerr"} :
          IF o = "ok"
          THEN /\ tornDown' = TRUE
               /\ hist' = [hist EXCEPT !.dev = Append(@, "release")]
               /\ pc' = "exited"
          ELSE /\ tornDown' = tornDown
               /\ hist' = Uncaught(hist, "IOError")
               /\ pc' = "crashed"
    /\ UNCHANGED <<call, now, start_time, startDay, Cred, file, issued, faults,
                   sigint, reboots, iter,
                   Ids>>

\* the host goes down after a reboot command was issued
HostRestart ==
    /\ reboots > 0
    /\ pc \notin Terminal
    /\ pc' = "killed"
    /\ UNCHANGED <<call, now, start_time, startDay, Cred, file, issued, faults,
                   sigint, reboots, tornDown, hist, iter,
                   Ids>>

----------------------------------------------------------------------------
Next ==
    \/ LoadTokens
    \/ InitDisplay
    \/ InitRetryWait
    \/ Watchdog
    \/ DayBranch
    \/ WeekendRender
    \/ WeekendWait
    \/ CheckExpiry
    \/ Discover
    \/ Exchange
    \/ SaveOpen
    \/ SaveWrite
    \/ GetUserId
    \/ GetOrganizationId
    \/ GetBillableActivity
    \/ WorkdayRender
    \/ WorkdayWait
    \/ CallBlocks
    \/ BlockedCall
    \/ ExceptRequest
    \/ ExceptIO
    \/ Interrupt
    \/ TeardownClear
    \/ TeardownWait
    \/ TeardownExit
    \/ HostRestart

Spec == Init /\ [][Next]_vars

\* the steps main's thread takes by itself: every step but the signal and
\* the host going down
Run ==
    \/ LoadTokens
    \/ InitDisplay
    \/ InitRetryWait
    \/ Watchdog
    \/ DayBranch
    \/ WeekendRender
    \/ WeekendWait
    \/ CheckExpiry
    \/ Discover
    \/ Exchange
    \/ SaveOpen
    \/ SaveWrite
    \/ GetUserId
    \/ GetOrganizationId
    \/ GetBillableActivity
    \/ WorkdayRender
    \/ WorkdayWait
    \/ BlockedCall
    \/ ExceptRequest
    \/ ExceptIO
    \/ TeardownClear
    \/ TeardownWait
    \/ TeardownExit

\* the thread is scheduled: a step it can take is taken
FairSpec == Spec /\ WF_vars(Run)

----------------------------------------------------------------------------
(* The pure functions, each called on its own with inputs of its domain *)

\* the ids of the organizations a response lists
OrgIds == {1, 2}

\* organizations.json()["organizations"]
OrgLists ==
    UNION {[1..n -> [name : OrgNames, id : OrgIds]] : n \in 0..MaxOrgs}

\* hours_per_day of settings.conf in ten-thousandths of an hour: 8.5,
\* 8.5001 and 0.25
HoursValues == {85000, 85001, 2500}

\* billable seconds of the day
WorkedValues == {0, 900, 30600, 30601, 40000}

PureInit ==
    /\ pc = "pure"
    /\ now = 0
    /\ start_time = 0
    /\ startDay = 1
    /\ access_token = 0
    /\ access_expiry = 0
    /\ refresh_token = 0
    /\ new_refresh_token = 0
    /\ user_id = 0
    /\ organization_id = 0
    /\ file = <<>>
    /\ issued = 0
    /\ faults = 0
    /\ sigint = FALSE
    /\ reboots = 0
    /\ tornDown = FALSE
    /\ hist = <<>>
    /\ iter = NoIter
    /\ \/ \E orgs \in OrgLists :
             call = [NoCall EXCEPT !.fn = "get_organization_id",
                                   !.organizations = orgs]
       \/ \E h \in HoursValues, w \in WorkedValues :
             call = [NoCall EXCEPT !.fn = "get_time_remaining",
                                   !.hours4 = h, !.worked = w]

CallOrganizationId ==
    /\ call.fn = "get_organization_id"
    /\ ~call.done
    /\ call' = [call EXCEPT !.done = TRUE,
                            !.result = get_organization_id(call.organizations)]
    /\ UNCHANGED daemon

CallTimeRemaining ==
    /\ call.fn = "get_time_remaining"
    /\ ~call.done
    /\ call' = [call EXCEPT
                   !.done = TRUE,
                   !.result = Returned(get_time_remaining(call.hours4,
                                                          call.worked))]
    /\ UNCHANGED daemon

PureNext ==
    \/ CallOrganizationId
    \/ CallTimeRemaining

PureSpec == PureInit /\ [][PureNext]_vars

----------------------------------------------------------------------------
(* Properties *)

\* the credential most recently issued to the daemon
LastIssued == TokenRecord(hist.lastAccess, hist.lastExpiry, hist.lastRefresh)

\* C1: every exchange request sends the refresh token returned by the most
\* recent successful exchange (the loaded one before the first), never one
\* that an earlier exchange consumed.
C1_SendsLatestRefreshToken ==
    hist.exchangeReqs > 0 => hist.sentRefresh = hist.validRefresh

WellFormedAtStart ==
    /\ Len(hist.startFile) = 3
    /\ hist.startFile[2] /= Unparsable

\* C3: at every moment after a start from a well-formed record the file
\* holds a complete triple, the one it held before the save began or the new
\* one; never an empty or truncated record.
C3_RecordAlwaysComplete ==
    WellFormedAtStart
        => /\ Len(file) = 3
           /\ file \in {hist.prevFile, LastIssued}

\* C4: in an iteration of the workday branch the refresh is invoked exactly
\* when now + 5 minutes is later than the expiry held (4 minutes away:
\* refresh; 10 minutes away: none), and it is invoked before any activity
\* request of the iteration.
C4_RefreshIffWithinLead ==
    /\ iter.refresh =>
          /\ iter.chk
          /\ iter.chkNow + 5 * 60 > iter.chkExp
          /\ iter.apiBefore = 0
    /\ iter.api > 0 =>
          /\ iter.chk
          /\ iter.refresh <=> (iter.chkNow + 5 * 60 > iter.chkExp)
          /\ iter.chkExp - iter.chkNow = 4 * 60 => iter.refresh
          /\ iter.chkExp - iter.chkNow = 10 * 60 => ~iter.refresh

\* an expiry 4 minutes away: the refresh ran, then the activity requests
C4_Witness ==
    /\ iter.chkExp - iter.chkNow = 4 * 60
    /\ iter.refresh
    /\ iter.api > 0

\* C5: in an iteration that exchanged the token, an activity request is
\* sent only after the save completed: the file then holds the credential
\* whose access token the request carries.
C5_PersistedBeforeUse ==
    (iter.exchanged /\ iter.api > 0)
        => /\ iter.saved
           /\ hist.save = "ok"
           /\ file = TokenRecord(access_token, access_expiry, new_refresh_token)
           /\ hist.reqToken = file[1]

\* an iteration that exchanged, saved and sent its three requests
C5_Witness ==
    /\ iter.exchanged
    /\ iter.api = 3
    /\ hist.reqToken = hist.lastAccess

\* C6: a discovery or exchange that fails (the call raises, or the response
\* lacks a field) leaves the credential in memory and on disk as they were
\* and leads to the 30-second wait and the next iteration.
C6_RefreshFailureRetries ==
    [][ /\ (pc \in {"discover", "exchange"}
            /\ pc' \notin {"exchange", "save_open", "td_clear", "killed",
                           "blocked"})
           => /\ pc' = "except_request"
              /\ UNCHANGED <<access_token, access_expiry, refresh_token, file>>
        /\ (pc = "except_request" /\ pc' \notin {"crashed", "killed"})
           => /\ pc' = "watchdog"
              /\ now' = now + 30
      ]_vars

\* C7: when the save of an exchanged credential failed, the tokens obtained
\* stay in memory, the activity requests carry the new access token, and no
\* new exchange is asked for unless the new expiry itself calls for one.
C7_KeepsTokenAfterFailedSave ==
    hist.save = "failed"
        => /\ access_token = hist.lastAccess
           /\ access_expiry = hist.lastExpiry
           /\ new_refresh_token = hist.lastRefresh
           /\ iter.api > 0 => hist.reqToken = hist.lastAccess
           /\ (iter.chk /\ ~iter.exchanged) =>
                 /\ iter.chkExp = hist.lastExpiry
                 /\ iter.refresh => iter.chkNow + 5 * 60 > iter.chkExp

\* after a failed save, a later iteration sends its requests with the new
\* access token and without a refresh
C7_Witness ==
    /\ hist.save = "failed"
    /\ issued > 0
    /\ ~iter.refresh
    /\ iter.api = 3
    /\ hist.reqToken = hist.lastAccess

\* C8: ISO weekday 7 selects the Weekend branch, 6 the Saturday branch and
\* 1 to 5 the Workday branch; an iteration on a Sunday or a Saturday makes
\* no refresh and no API request.
C8_DayBranchSelection ==
    iter.branch /= "none"
        => /\ iter.dow = 7 => iter.branch = "Weekend"
           /\ iter.dow = 6 => iter.branch = "Saturday"
           /\ iter.dow \in 1..5 => iter.branch = "Workday"
           /\ iter.dow \in {6, 7} => (~iter.chk /\ ~iter.refresh /\ iter.api = 0)

\* C9: the uptime check is the first thing an iteration does, before any
\* device call, refresh or API request, and it issues the restart exactly
\* when the uptime exceeds 60 minutes.
C9_WatchdogFirst ==
    /\ iter.checked =>
          /\ iter.reboot <=> (iter.uptime > 60 * 60)
          /\ iter.opsBefore = 0
          /\ iter.uptime = 61 * 60 => iter.reboot
          /\ iter.uptime = 59 * 60 => ~iter.reboot
    /\ (iter.ops > 0 \/ iter.branch /= "none" \/ iter.chk) => iter.checked
    /\ reboots > 0 => now - start_time > 60 * 60

\* an uptime of 61 minutes: the restart was issued, then the branch ran
C9_Witness ==
    /\ iter.uptime = 61 * 60
    /\ iter.reboot
    /\ iter.ops > 0

\* C10: a process that ends after a KeyboardInterrupt has run the device
\* teardown.
C10_TeardownBeforeExit ==
    (sigint /\ pc \in {"exited", "crashed"}) => tornDown

\* C11: a process that exits after the shutdown has driven the device
\* through clear, then the low-power sleep, then the release of its
\* resources, in that order.
C11_ClearSleepRelease ==
    pc = "exited"
        => \E i, j, k \in 1..Len(hist.dev) :
              /\ i < j /\ j < k
              /\ hist.dev[i] = "clear"
              /\ hist.dev[j] = "sleep"
              /\ hist.dev[k] = "release"

\* C12: a remote call that fails, by a transport failure or by an HTTP
\* error response, leaves the process running: it leads to the 30-second
\* wait and the next iteration, every time.
C12_RemoteFailureRetries ==
    [][ /\ (pc \in RemoteCalls /\ pc' \in {"except_request", "crashed"})
           => pc' = "except_request"
        /\ (pc = "except_request" /\ pc' \notin {"crashed", "killed"})
           => /\ pc' = "watchdog"
              /\ now' = now + 30
      ]_vars

\* C13: after an API call was rejected with a 401 the process is still
\* running, and an iteration after the rejected one sends no API request
\* without a token refresh before it.
C13_RefreshAfterUnauthorized ==
    hist.unauthorized
        => /\ pc /= "crashed"
           /\ (iter.api > 0 /\ ~iter.rejected) => iter.refresh

\* C14: no device-IO error ends the process: wherever a device call raises
\* it, it is caught and the call is tried again.
C14_DeviceErrorNeverFatal ==
    hist.crash /= "IOError"

\* C15: a process started on a record that is absent, unreadable or not
\* well-formed never enters the polling loop, renders nothing and sends no
\* remote request.
C15_MalformedRecordStopsStartup ==
    ~WellFormedAtStart
        => /\ ~hist.polled
           /\ ~hist.rendered
           /\ hist.exchangeReqs = 0
           /\ hist.reqToken = 0

\* C16: an iteration that already holds a resolved user id and a resolved
\* organization id sends no user-resolution request and no
\* organization-resolution request.
C16_IdentifiersResolvedOnce ==
    [][ (user_id /= 0 /\ organization_id /= 0 /\ pc \in {"get_user", "get_org"})
           => iter'.api <= iter.api
      ]_vars

\* the organizations of the call whose name contains the substring
Matching ==
    {i \in 1..Len(call.organizations) :
        call.organizations[i].name = "NXLog Ltd"}

\* C17: over any organization list, when exactly one organization's name
\* contains the substring the resolution returns that organization's id,
\* and when none does the resolution fails: it raises and returns no id.
C17_OrganizationResolution ==
    (call.fn = "get_organization_id" /\ call.done)
        => /\ Cardinality(Matching) = 1
              => /\ call.result.raised = "none"
                 /\ \A i \in Matching :
                       call.result.value = call.organizations[i].id
           /\ Matching = {}
              => /\ call.result.raised /= "none"
                 /\ call.result.value \notin OrgIds

\* three organizations, only the first matches and the others carry
\* another id: the first one's id was returned
C17_Witness ==
    /\ call.fn = "get_organization_id"
    /\ call.done
    /\ Len(call.organizations) = 3
    /\ Matching = {1}
    /\ call.organizations[2].name = "nxlog"
    /\ call.organizations[3].id /= call.organizations[1].id
    /\ call.result = Returned(call.organizations[1].id)

\* round(n / d) for n >= 0 and d > 0
Round(n, d) == (2 * n + d) \div (2 * d)

\* C18: the remaining time is max(0, round(hours * 3600) - worked_seconds),
\* a whole number of seconds: never negative, and 0 whenever the worked time
\* meets or exceeds the target.
C18_RemainingIsRoundedDifference ==
    (call.fn = "get_time_remaining" /\ call.done)
        => LET target == Round(call.hours4 * 9, 25)
               expected == IF target - call.worked < 0 THEN 0
                           ELSE target - call.worked
           IN  /\ call.result.value = expected * 25
               /\ call.result.value >= 0
               /\ call.worked >= target => call.result.value = 0

\* C19: in every run that is not cancelled (and has not ended by itself),
\* once the uptime exceeds 60 minutes the restart is eventually issued,
\* whatever the process is doing at that moment, a blocking network call
\* included.
C19_WatchdogNotStarved ==
    (now - start_time > 60 * 60)
        ~> (reboots > 0 \/ sigint \/ pc \in Terminal)

\* C20: the step that issues the restart command goes on to the day branch
\* of the same iteration; the recorded start time is never reset, and once
\* the command has been issued every later check issues it again.
C20_RestartDoesNotEndLoop ==
    [][ /\ start_time' = start_time
        /\ (pc = "watchdog" /\ pc' \notin {"crashed", "killed"})
              => /\ pc' = "weekday"
                 /\ iter'.checked
                 /\ reboots > 0 => (iter'.reboot /\ reboots' = reboots + 1)
        /\ (pc = "weekday" /\ pc' \notin {"crashed", "killed"})
              => pc' \in {"sunday", "saturday", "check_expiry"}
      ]_vars

\* the iteration of the second restart command has sent its three API
\* requests
C20_Witness ==
    /\ reboots >= 2
    /\ iter.reboot
    /\ iter.branch = "Workday"
    /\ iter.api = 3

\* C21: an iteration of the polling loop that does not end the process ends
\* with one wait and has none before it: 600 s after a weekend render, 55 s
\* after a workday render, 30 s after a request error, 5 s after an IO
\* error; so at least 5 s lie between the calls of consecutive iterations.
C21_OneWaitEndsIteration ==
    [][ /\ (pc' = "watchdog" /\ pc /= "init_epd")
              => /\ pc \in {"weekend_wait", "wait", "except_request",
                            "except_io"}
                 /\ now' - now >= 5
                 /\ pc = "weekend_wait" => now' - now = 600
                 /\ pc = "wait" => now' - now = 55
                 /\ pc = "except_request" => now' - now = 30
                 /\ pc = "except_io" => now' - now = 5
        /\ (iter.checked /\ iter'.checked) => now' = now
      ]_vars

\* started on a Saturday: two weekend waits, one IO error and its wait, a
\* third weekend wait, then a workday iteration and its wait
C21_Witness ==
    /\ pc = "watchdog"
    /\ startDay = 6
    /\ faults = 1
    /\ hist.rendered
    /\ iter = NoIter
    /\ now - start_time = 3 * 600 + 5 + 55

====
